---- MODULE Spec2Model ----
(***************************************************************************)
(* A model of tumor_detector.ipynb: the k-fold cross-validation loop, the  *)
(* training function, the evaluation function, the final training run and  *)
(* the save of the weights.                                                *)
(*                                                                         *)
(* The notebook runs with folds = 5, batch_size = 32, num_epochs = 10 on   *)
(* some hundreds of images.  Those four sizes are parameters of the model, *)
(* drawn in Init from the small ranges below; everything else is taken     *)
(* from the cells as they are written.  Floating-point metric values are   *)
(* modelled as exact fractions in lowest terms.                            *)
(***************************************************************************)
EXTENDS Integers, Sequences, FiniteSets

(***************************************************************************)
(* Bounds of the model.                                                    *)
(***************************************************************************)
\* largest dataset (number of images) of a pipeline run
MaxN == 3
\* largest number of folds of a pipeline run
MaxFolds == 3
\* largest batch size of the training loaders
MaxBatchSize == 2
\* largest epoch count
MaxEpochs == 2
\* largest dataset handed to KFold on its own
MaxSplitN == 5
\* largest data source handed to evaluate_model on its own
MaxEvalN == 5
\* largest batch size of a data source handed to evaluate_model on its own
MaxEvalBatch == 2
\* largest data source handed to train_model on its own
MaxTrainN == 12
\* largest loss of a batch
MaxLoss == 2
\* largest dataset of the mean and standard deviation cell
MaxImages == 65

VARIABLES
    pc,              \* the statement the notebook is at
    error,           \* the exception that stopped the run, or "none"
    labels,          \* dataset: sample index -> label (0 benign, 1 malignant)
    transform,       \* dataset.transform
    folds,           \* folds
    batch_size,      \* batch_size
    num_epochs,      \* num_epochs
    loss_fn,         \* loss_fn: the loss it gives for a batch, by the parameters the model has
    indices,         \* KFold's shuffled index array (the outcome of the seeded shuffle)
    split_pos,       \* number of folds the split generator has yielded
    splits,          \* the (train, test) pairs the split generator has yielded
    fold,            \* fold (loop variable), -1 before the loop
    train_i,         \* train_i
    test_i,          \* test_i
    cancer_net,      \* the model: its parameter state and its training flag
    state_dict,      \* the snapshot taken after construction
    optimizer,       \* optimizer
    scheduler,       \* scheduler
    next_id,         \* identity of the next object constructed
    train_loader,    \* train_loader
    dataset_loader,  \* dataset_loader
    test_loader,     \* test_loader
    tm,              \* the frame of train_model
    ev,              \* the frame of evaluate_model
    result,          \* accuracy, precision, recall, f1_score as returned
    totals,          \* total_a, total_p, total_r, total_f1
    output,          \* what the cells have printed (metric lines and end-of-training lines)
    saved,           \* the weights files written by torch.save
    runs,            \* history: one record per call of train_model
    trained,         \* history: the parameters the last call of train_model left
    ms,              \* the mean and standard deviation cell: its loader, n and sums
    seen             \* history: the (prediction, label) pairs evaluate_model has read

vars == << pc, error, labels, transform, folds, batch_size, num_epochs, loss_fn, indices,
           split_pos, splits, fold, train_i, test_i, cancer_net, state_dict,
           optimizer, scheduler, next_id, train_loader, dataset_loader, test_loader,
           tm, ev,
           result, totals, output, saved, runs, trained, ms, seen >>

(***************************************************************************)
(* Values                                                                  *)
(***************************************************************************)
\* current_fold=None of train_model
None == -1
\* transform=None of ImageFolder
NoTransform == "None"
train_transform == "train_transform"
test_transform == "test_transform"
\* the parameter state of the model, as far as the notebook can tell one from
\* another: the one the constructed model has, or another one
constructed == "constructed"
Weights == { constructed, "other" }

Min(a, b) == IF a < b THEN a ELSE b

RECURSIVE Gcd(_, _)
Gcd(a, b) == IF b = 0 THEN a ELSE Gcd(b, a % b)

\* a fraction n/d (d > 0, n >= 0) in lowest terms
Rat(n, d) == LET g == Gcd(n, d) IN << n \div g, d \div g >>
RatAdd(x, y) == Rat(x[1] * y[2] + y[1] * x[2], x[2] * y[2])
RatMul(x, y) == Rat(x[1] * y[1], x[2] * y[2])
\* x / y for y # 0
RatDiv(x, y) == Rat(x[1] * y[2], x[2] * y[1])
RatIsZero(x) == x[1] = 0
RatInUnit(x) == 0 <= x[1] /\ x[1] <= x[2] /\ x[2] > 0

\* the elements of a finite set of integers in ascending order
RECURSIVE SortedSeq(_)
SortedSeq(S) ==
    IF S = {} THEN << >>
    ELSE LET m == CHOOSE x \in S : \A y \in S : x <= y
         IN << m >> \o SortedSeq(S \ {m})

\* ImageFolder: classes in alphabetical order (benign 0, malignant 1), the
\* samples of a class together, no class empty
ImageFolder(nb, nm) == [ k \in 0 .. (nb + nm - 1) |-> IF k < nb THEN 0 ELSE 1 ]
Datasets(maxN) ==
    { ImageFolder(nb, nm) : nb \in 1 .. maxN, nm \in 1 .. maxN } \cap
    UNION { [ 0 .. (n - 1) -> {0, 1} ] : n \in 2 .. maxN }
Len0(f) == Cardinality(DOMAIN f)

Perms(n) ==
    { f \in [ 0 .. (n - 1) -> 0 .. (n - 1) ] :
        \A a, b \in 0 .. (n - 1) : a # b => f[a] # f[b] }

(***************************************************************************)
(* KFold(n_splits, shuffle=True).split                                     *)
(***************************************************************************)
\* FoldSize without the remainder: every fold n_samples // n_splits
FoldSizeNoRemainder(n_samples, n_splits, k) == n_samples \div n_splits

\* fold_sizes[k]: n_samples // n_splits, one more for the first n_samples % n_splits
FoldSize(n_samples, n_splits, k) ==
    (n_samples \div n_splits) + (IF k < n_samples % n_splits THEN 1 ELSE 0)

\* start of fold k: the sizes of the folds before it
RECURSIVE FoldStart(_, _, _)
FoldStart(n_samples, n_splits, k) ==
    IF k = 0 THEN 0
    ELSE FoldStart(n_samples, n_splits, k - 1) + FoldSize(n_samples, n_splits, k - 1)

\* the k-th (train, test) pair: test is a slice of the shuffled indices, train
\* the indices outside the test mask
KFoldSplit(shuffled, n_splits, k) ==
    LET n_samples == Len0(shuffled)
        start == FoldStart(n_samples, n_splits, k)
        stop == start + FoldSize(n_samples, n_splits, k)
        test == { shuffled[p] : p \in start .. (stop - 1) }
    IN  [ train |-> (0 .. (n_samples - 1)) \ test, test |-> test ]

(***************************************************************************)
(* Objects                                                                 *)
(***************************************************************************)
\* DataLoader(dataset=Subset(dataset, indices), batch_size, shuffle)
DataLoader(subset, bs, shuffle) ==
    [ indices |-> subset, batch_size |-> bs, shuffle |-> shuffle ]
NoLoader == DataLoader({}, 1, FALSE)
\* len(data_loader): the number of batches of a pass, the last one partial
LoaderLen(loader) ==
    (Cardinality(loader.indices) + loader.batch_size - 1) \div loader.batch_size
\* the batches the loader may serve next in a pass that has `remaining` left:
\* any batch_size of them when it shuffles, the first batch_size in index
\* order when it does not; all that are left in the last batch
NextBatches(loader, remaining) ==
    LET size == Min(loader.batch_size, Cardinality(remaining))
    IN  IF loader.shuffle
        THEN { b \in SUBSET remaining : Cardinality(b) = size }
        ELSE { { x \in remaining :
                   Cardinality({ y \in remaining : y < x }) < size } }

\* the batches of a loader that does not shuffle: the indices in order, cut
\* every batch_size
RECURSIVE Chunks(_, _)
Chunks(s, bs) ==
    IF Len(s) = 0 THEN << >>
    ELSE << SubSeq(s, 1, Min(bs, Len(s))) >> \o Chunks(SubSeq(s, bs + 1, Len(s)), bs)

\* Served with a transform per subset: the training one for the samples of
\* train_i, the evaluation one for the others
ServedPerSubset(subset) ==
    [ s \in subset |-> IF s \in train_i THEN train_transform ELSE test_transform ]

\* the transform each sample of a subset is served through: Subset and
\* DataLoader hold no transform, every read goes to the one dataset object
\* and applies the transform it has at that moment
Served(subset) == [ s \in subset |-> transform ]

\* NewOptimizer that hands back the optimizer of the run before
NewOptimizerReused(id) ==
    IF optimizer.id # 0 THEN optimizer ELSE [ id |-> id, steps |-> 0 ]

\* optim.AdamW(...): a new object that has taken no step
NewOptimizer(id) == [ id |-> id, steps |-> 0 ]
\* lr_scheduler.CyclicLR(optimizer, ...): a new object bound to its optimizer
NewScheduler(id, opt) == [ id |-> id, steps |-> 0, optimizer |-> opt.id ]
NoOptimizer == [ id |-> 0, steps |-> 0 ]
NoScheduler == [ id |-> 0, steps |-> 0, optimizer |-> 0 ]

\* ModelTrain that leaves the mode as it is
ModelTrainSkipped(net) == net

\* model.train(): training mode
ModelTrain(net) == [ net EXCEPT !.training = TRUE ]
\* model.eval(): inference mode
ModelEval(net) == [ net EXCEPT !.training = FALSE ]

\* cancer_net.state_dict(): a view that shares the model's tensors
StateDict(net) == [ shared |-> TRUE, val |-> net.weights ]
\* copy.deepcopy(...): a copy with tensors of its own
DeepCopy(sd) == [ shared |-> FALSE, val |-> sd.val ]
\* LoadStateDict that copies nothing
LoadStateDictSkipped(net, sd) == net

\* cancer_net.load_state_dict(sd): the values are copied into the model
LoadStateDict(net, sd) == [ net EXCEPT !.weights = sd.val ]
\* an in-place update of the model's tensors reaches every view that shares them
AfterUpdate(sd, w) == IF sd.shared THEN [ sd EXCEPT !.val = w ] ELSE sd

(***************************************************************************)
(* Tensors of evaluate_model: a tensor is the sequence of its elements     *)
(***************************************************************************)
\* BroadcastEq that compares the predictions with 1 instead of the labels
BroadcastEqWithOne(predicted, labs) ==
    LET B == Len(predicted)
    IN  [ k \in 1 .. (B * B) |-> predicted[((k - 1) \div B) + 1] = 1 ]

\* predicted == labels, predicted of shape [B, 1] (the model's single logit per
\* sample, not flattened) and labels of shape [B]: broadcast to [B, B]
BroadcastEq(predicted, labs) ==
    LET B == Len(predicted)
    IN  [ k \in 1 .. (B * B) |->
            predicted[((k - 1) \div B) + 1] = labs[((k - 1) % B) + 1] ]
\* t == v, elementwise
EqScalar(t, v) == [ k \in 1 .. Len(t) |-> t[k] = v ]
\* t.sum().item() of a Boolean tensor
TensorSum(t) == Cardinality({ k \in 1 .. Len(t) : t[k] })
\* Python's  x and y  on tensors: bool(x) raises unless x has one element;
\* the value is y when that element is True and x otherwise
PyAnd(x, y) ==
    IF Len(x) # 1 THEN [ raised |-> TRUE, value |-> << >> ]
    ELSE [ raised |-> FALSE, value |-> IF x[1] THEN y ELSE x ]

NoMeanStd == [ loader |-> NoLoader, batches |-> << >>, next |-> 1, points |-> 0,
               n |-> 0 ]
NoResult == [ accuracy |-> << 0, 1 >>, precision |-> << 0, 1 >>,
              recall |-> << 0, 1 >>, f1_score |-> << 0, 1 >> ]
ZeroTotals == [ total_a |-> << 0, 1 >>, total_p |-> << 0, 1 >>,
                total_r |-> << 0, 1 >>, total_f1 |-> << 0, 1 >> ]
NoTrainFrame == [ data_loader |-> NoLoader, current_fold |-> None, num_epochs |-> 0,
                  epoch |-> 0, i |-> 0, remaining |-> {}, current_loss |-> 0,
                  calls |-> << >>, lines |-> << >>, epoch_loss |-> 0 ]
NoEvalFrame == [ batches |-> << >>, next |-> 1, total |-> 0, correct |-> 0,
                 total_positive |-> 0, predicted_positive |-> 0,
                 predicted_positive_correct |-> 0, transforms |-> {}, modes |-> {} ]

\* AfterRaise that goes on with the end of the loop body, as a handler around
\* the body would
AfterRaiseNextFold == "reset"

\* where an exception leaves the run: no cell has a try statement, so the cell
\* that raises stops and no later statement runs
AfterRaise == "raised"

(***************************************************************************)
(* train_model                                                             *)
(***************************************************************************)
params == << labels, folds, batch_size, num_epochs, loss_fn, indices >>
loop_vars == << split_pos, splits, fold, train_i, test_i >>
loaders == << train_loader, dataset_loader, test_loader >>
eval_vars == << ev, result, seen >>
history == << runs, trained >>

\* the frame of a call train_model(model, data_loader, ..., current_fold, num_epochs)
TrainFrame(loader, current_fold, epochs) ==
    [ data_loader |-> loader, current_fold |-> current_fold, num_epochs |-> epochs,
      epoch |-> 0, i |-> 0, remaining |-> {}, current_loss |-> 0,
      calls |-> << >>, lines |-> << >>, epoch_loss |-> 0 ]
NewRun(current_fold) ==
    [ current_fold |-> current_fold, optimizers |-> {}, schedulers |-> {},
      transforms |-> {}, first_steps |-> << >>, drawn |-> {}, epochs |-> 0,
      full_epochs |-> TRUE, batches |-> 0, modes |-> {}, indices |-> {} ]

\* model.train() and the first statement of the function
TrainEnter(loader, current_fold, epochs) ==
    /\ tm' = TrainFrame(loader, current_fold, epochs)
    /\ cancer_net' = ModelTrain(cancer_net)
    /\ runs' = Append(runs, [ NewRun(current_fold) EXCEPT !.indices = loader.indices ])
    /\ pc' = "epoch"
    /\ UNCHANGED << error, params, ms, transform, loop_vars, state_dict, optimizer,
                    scheduler, next_id, loaders, eval_vars, totals, output, saved,
                    trained >>

\* train_model(cancer_net, train_loader, ..., current_fold=fold, num_epochs=num_epochs)
TrainCallFold ==
    /\ pc = "call_train_fold"
    /\ TrainEnter(train_loader, fold, num_epochs)

\* train_model(cancer_net, dataset_loader, optimizer, loss_fn, scheduler, None, num_epochs)
TrainCallFinal ==
    /\ pc = "call_train_final"
    /\ TrainEnter(dataset_loader, None, num_epochs)

\* for epoch in range(num_epochs): i = 0; current_loss = 0.0; a new pass over
\* the loader
EpochBegin ==
    /\ pc = "epoch"
    /\ tm.epoch < tm.num_epochs
    /\ LET begun == [ tm EXCEPT !.i = 0, !.current_loss = 0, !.lines = << >>,
                                !.epoch_loss = 0 ]
       IN  IF tm.data_loader.indices = {}
           THEN /\ tm' = [ begun EXCEPT !.epoch = @ + 1 ]
                /\ pc' = "epoch"
           ELSE /\ tm' = [ begun EXCEPT !.remaining = tm.data_loader.indices ]
                /\ pc' = "batch"
    /\ UNCHANGED << error, params, ms, transform, loop_vars, cancer_net, state_dict,
                    optimizer, scheduler, next_id, loaders, eval_vars, totals,
                    output, saved, history >>

\* BatchCalls without the call of scheduler.step()
BatchCallsWithoutSchedulerStep ==
    << "zero_grad", "forward", "loss", "backward", "optimizer.step" >>

\* the calls of the loop body, in the order of its statements
BatchCalls ==
    << "zero_grad", "forward", "loss", "backward", "optimizer.step",
       "scheduler.step" >>
\* how many times a call occurs in a sequence of calls
Count(calls, name) == Cardinality({ k \in 1 .. Len(calls) : calls[k] = name })

\* PrintsProgress without the test for the last batch
PrintsProgressEveryTenthOnly(i, len) == i % 10 = 9

\* if i % 10 == 9 or i == len(data_loader) - 1
PrintsProgress(i, len) == i % 10 = 9 \/ i = len - 1

\* the line printed: fold (if any), epoch, batch and the accumulated loss;
\* `total` notes the sum of the losses of the epoch's batches up to this line
ProgressLine(frame, loss) ==
    [ kind |-> "progress", fold |-> frame.current_fold, epoch |-> frame.epoch + 1,
      batch |-> frame.i + 1, of |-> LoaderLen(frame.data_loader),
      loss |-> frame.current_loss + loss, total |-> frame.epoch_loss + loss ]

\* one batch: the loader serves batch_size samples not yet served in this pass
\* (all that are left in the last batch) through the transform the dataset has
\* now; zero_grad, forward, loss, backward, optimizer.step(), scheduler.step();
\* then the loss is accumulated and, every tenth batch and at the last one, the
\* progress line is printed and the accumulated loss is zeroed
TrainBatch ==
    /\ pc = "batch"
    /\ tm.remaining # {}
    /\ \E batch \in NextBatches(tm.data_loader, tm.remaining), w \in Weights :
         LET last == tm.remaining = batch
             r == runs[Len(runs)]
             loss == loss_fn[cancer_net.weights]
             prints == PrintsProgress(tm.i, LoaderLen(tm.data_loader))
         IN  /\ cancer_net' = [ cancer_net EXCEPT !.weights = w ]
             /\ state_dict' = AfterUpdate(state_dict, w)
             /\ optimizer' = [ optimizer EXCEPT
                                 !.steps = @ + Count(BatchCalls, "optimizer.step") ]
             /\ scheduler' = [ scheduler EXCEPT
                                 !.steps = @ + Count(BatchCalls, "scheduler.step") ]
             /\ tm' = [ tm EXCEPT
                          !.i = @ + 1,
                          !.remaining = @ \ batch,
                          !.epoch = IF last THEN @ + 1 ELSE @,
                          !.calls = BatchCalls,
                          !.current_loss = IF prints THEN 0 ELSE @ + loss,
                          !.epoch_loss = @ + loss,
                          !.lines = IF prints THEN Append(@, ProgressLine(tm, loss))
                                    ELSE @ ]
             /\ pc' = IF last THEN "epoch" ELSE "batch"
             /\ runs' = [ runs EXCEPT ![Len(runs)] =
                  [ r EXCEPT
                      !.optimizers = @ \cup { optimizer.id },
                      !.schedulers = @ \cup { scheduler.id },
                      !.transforms = @ \cup { Served(batch)[s] : s \in batch },
                      !.modes = @ \cup { cancer_net.training },
                      !.first_steps = IF r.batches = 0
                                      THEN << optimizer.steps, scheduler.steps >>
                                      ELSE @,
                      !.batches = @ + 1,
                      !.drawn = IF tm.i = 0 THEN batch ELSE @ \cup batch,
                      !.epochs = IF last THEN @ + 1 ELSE @,
                      !.full_epochs =
                          IF last
                          THEN @ /\ (IF tm.i = 0 THEN batch ELSE r.drawn \cup batch)
                                    = tm.data_loader.indices
                          ELSE @ ] ]
    /\ UNCHANGED << error, params, ms, transform, loop_vars, next_id, loaders,
                    eval_vars, totals, output, saved, trained >>

\* AfterTrainReturn that goes to the save after every call
AfterTrainReturnAlwaysSave(current_fold) == "save"

\* the statement after a call of train_model: evaluate_model in the loop body,
\* torch.save after the final cell
AfterTrainReturn(current_fold) ==
    IF current_fold = None THEN "save" ELSE "call_eval"

\* print("Training Complete!") and the return to the caller
TrainReturn ==
    /\ pc = "epoch"
    /\ tm.epoch >= tm.num_epochs
    /\ output' = Append(output, [ kind |-> "training_complete" ])
    /\ pc' = AfterTrainReturn(tm.current_fold)
    /\ trained' = cancer_net.weights
    /\ UNCHANGED << error, params, ms, transform, loop_vars, cancer_net, state_dict,
                    optimizer, scheduler, next_id, loaders, tm, eval_vars, totals,
                    saved, runs >>

(***************************************************************************)
(* evaluate_model                                                          *)
(***************************************************************************)
\* the batches a loader that does not shuffle serves, as sequences of indices
LoaderBatches(loader) == Chunks(SortedSeq(loader.indices), loader.batch_size)

\* evaluate_model(cancer_net, data_loader=test_loader, threshold=0.3): the
\* counters are zeroed and the model is put in inference mode
EvalEnter ==
    /\ pc = "call_eval"
    /\ ev' = [ NoEvalFrame EXCEPT !.batches = LoaderBatches(test_loader) ]
    /\ cancer_net' = ModelEval(cancer_net)
    /\ seen' = << >>
    /\ pc' = "eval_loop"
    /\ UNCHANGED << error, params, ms, transform, loop_vars, state_dict, optimizer,
                    scheduler, next_id, loaders, tm, result, totals, output,
                    saved, history >>

\* one batch of the loop: the thresholded predictions are whatever the model
\* gives; the five counters are updated in the order of the code, and the last
\* update raises when  predicted == labels  has more than one element
EvalBatch ==
    /\ pc = "eval_loop"
    /\ ev.next <= Len(ev.batches)
    /\ LET batch == ev.batches[ev.next]
           B == Len(batch)
           labs == [ k \in 1 .. B |-> labels[batch[k]] ]
           samples == { batch[k] : k \in 1 .. B }
       IN  \E predicted \in [ 1 .. B -> {0, 1} ] :
             LET both == PyAnd(BroadcastEq(predicted, labs), EqScalar(predicted, 1))
                 counted ==
                   [ ev EXCEPT
                       !.transforms = @ \cup { Served(samples)[s] : s \in samples },
                       !.modes = @ \cup { cancer_net.training },
                       !.total = @ + B,
                       !.correct = @ + TensorSum(BroadcastEq(predicted, labs)),
                       !.total_positive = @ + TensorSum(EqScalar(labs, 1)),
                       !.predicted_positive = @ + TensorSum(EqScalar(predicted, 1)) ]
             IN  /\ seen' = seen \o [ k \in 1 .. B |-> << predicted[k], labs[k] >> ]
                 /\ IF both.raised
                    THEN /\ ev' = counted
                         /\ error' = "RuntimeError"
                         /\ pc' = AfterRaise
                    ELSE /\ ev' = [ counted EXCEPT
                                      !.predicted_positive_correct =
                                          @ + TensorSum(both.value),
                                      !.next = @ + 1 ]
                         /\ error' = error
                         /\ pc' = pc
    /\ UNCHANGED << params, ms, transform, loop_vars, cancer_net, state_dict, optimizer,
                    scheduler, next_id, loaders, tm, result, totals, output, saved,
                    history >>

\* accuracy, precision, recall and f1_score as the four statements after the
\* loop compute them, in their order; a division by zero raises
Ratios(e) ==
    LET Raise == [ raised |-> TRUE, value |-> NoResult ]
    IN  IF e.total = 0 THEN Raise
        ELSE IF e.predicted_positive = 0 THEN Raise
        ELSE IF e.total_positive = 0 THEN Raise
        ELSE LET accuracy == Rat(e.correct, e.total)
                 precision == Rat(e.predicted_positive_correct, e.predicted_positive)
                 recall == Rat(e.predicted_positive_correct, e.total_positive)
             IN  IF RatIsZero(RatAdd(precision, recall)) THEN Raise
                 ELSE [ raised |-> FALSE,
                        value |->
                          [ accuracy |-> accuracy, precision |-> precision,
                            recall |-> recall,
                            f1_score |->
                              RatDiv(RatMul(RatMul(<< 2, 1 >>, precision), recall),
                                     RatAdd(precision, recall)) ] ]

\* the end of the loop, the four ratios and the return of the tuple
EvalFinish ==
    /\ pc = "eval_loop"
    /\ ev.next > Len(ev.batches)
    /\ LET r == Ratios(ev)
       IN  IF r.raised
           THEN /\ error' = "ZeroDivisionError"
                /\ pc' = AfterRaise
                /\ result' = result
           ELSE /\ result' = r.value
                /\ pc' = "aggregate"
                /\ error' = error
    /\ UNCHANGED << params, ms, transform, loop_vars, cancer_net, state_dict, optimizer,
                    scheduler, next_id, loaders, tm, ev, seen, totals, output,
                    saved, history >>

(***************************************************************************)
(* The cross-validation cell, the final training cell and the save         *)
(***************************************************************************)
\* the for statement takes the next (train_i, test_i) of k_fold.split(dataset),
\* which raises when there are more folds than samples; then the fold's
\* optimizer and scheduler are constructed
FoldBegin ==
    /\ pc = "cv_loop"
    /\ split_pos < folds
    /\ IF folds > Len0(labels)
       THEN /\ error' = "ValueError"
            /\ pc' = AfterRaise
            /\ UNCHANGED << loop_vars, optimizer, scheduler, next_id >>
       ELSE LET s == KFoldSplit(indices, folds, split_pos)
            IN  /\ fold' = split_pos
                /\ split_pos' = split_pos + 1
                /\ train_i' = s.train
                /\ test_i' = s.test
                /\ splits' = Append(splits, s)
                /\ optimizer' = NewOptimizer(next_id)
                /\ scheduler' = NewScheduler(next_id + 1, optimizer')
                /\ next_id' = next_id + 2
                /\ pc' = "prepare_train"
                /\ error' = error
    /\ UNCHANGED << params, ms, transform, cancer_net, state_dict, loaders, tm,
                    eval_vars, totals, output, saved, history >>

\* train_data = Subset(dataset, train_i); train_data.dataset.transform = ...;
\* train_loader = DataLoader(train_data, batch_size, shuffle=True)
PrepareTrain ==
    /\ pc = "prepare_train"
    /\ transform' = train_transform
    /\ train_loader' = DataLoader(train_i, batch_size, TRUE)
    /\ pc' = "prepare_test"
    /\ UNCHANGED << error, params, ms, loop_vars, cancer_net, state_dict, optimizer,
                    scheduler, next_id, dataset_loader, test_loader, tm, eval_vars,
                    totals, output, saved, history >>

\* test_data = Subset(dataset, test_i); test_data.dataset.transform = ...;
\* test_loader = DataLoader(test_data, batch_size=1, shuffle=False).
\* test_data.dataset is the dataset train_data wraps
PrepareTest ==
    /\ pc = "prepare_test"
    /\ transform' = test_transform
    /\ test_loader' = DataLoader(test_i, 1, FALSE)
    /\ pc' = "call_train_fold"
    /\ UNCHANGED << error, params, ms, loop_vars, cancer_net, state_dict, optimizer,
                    scheduler, next_id, train_loader, dataset_loader, tm, eval_vars,
                    totals, output, saved, history >>

\* total_a += accuracy ... and the four prints of the fold's metrics
Aggregate ==
    /\ pc = "aggregate"
    /\ totals' = [ total_a |-> RatAdd(totals.total_a, result.accuracy),
                   total_p |-> RatAdd(totals.total_p, result.precision),
                   total_r |-> RatAdd(totals.total_r, result.recall),
                   total_f1 |-> RatAdd(totals.total_f1, result.f1_score) ]
    /\ output' = Append(output, [ kind |-> "fold", fold |-> fold, metrics |-> result ])
    /\ pc' = "reset"
    /\ UNCHANGED << error, params, ms, transform, loop_vars, cancer_net, state_dict,
                    optimizer, scheduler, next_id, loaders, tm, eval_vars, saved,
                    history >>

\* cancer_net.load_state_dict(state_dict), the last statement of the loop body
ResetModel ==
    /\ pc = "reset"
    /\ cancer_net' = LoadStateDict(cancer_net, state_dict)
    /\ pc' = "cv_loop"
    /\ UNCHANGED << error, params, ms, transform, loop_vars, state_dict, optimizer,
                    scheduler, next_id, loaders, tm, eval_vars, totals, output,
                    saved, history >>

\* Average that divides by one more than the number of folds
AverageOffByOne(total, k) == RatDiv(total, << k + 1, 1 >>)

\* total / folds
Average(total, k) == RatDiv(total, << k, 1 >>)

\* the loop is over: the blank line and the four averages are printed
CVSummary ==
    /\ pc = "cv_loop"
    /\ split_pos >= folds
    /\ output' = Append(output,
         [ kind |-> "summary", fold |-> None,
           metrics |-> [ accuracy |-> Average(totals.total_a, folds),
                         precision |-> Average(totals.total_p, folds),
                         recall |-> Average(totals.total_r, folds),
                         f1_score |-> Average(totals.total_f1, folds) ] ])
    /\ pc' = "final"
    /\ UNCHANGED << error, params, ms, transform, loop_vars, cancer_net, state_dict,
                    optimizer, scheduler, next_id, loaders, tm, eval_vars, totals,
                    saved, history >>

\* FinalTrainingData that keeps the last fold's training subset
FinalTrainingDataOfLastFold == train_i

\* dataset=dataset of the final loader: every sample of the dataset
FinalTrainingData == DOMAIN labels

\* the final cell up to the call: the weights are reset, a new optimizer and
\* scheduler are constructed, the training transform is installed and a loader
\* over the whole dataset is built (its batch size, written 32 in the cell, is
\* the value batch_size has)
FinalSetup ==
    /\ pc = "final"
    /\ cancer_net' = LoadStateDict(cancer_net, state_dict)
    /\ optimizer' = NewOptimizer(next_id)
    /\ scheduler' = NewScheduler(next_id + 1, optimizer')
    /\ next_id' = next_id + 2
    /\ transform' = train_transform
    /\ dataset_loader' = DataLoader(FinalTrainingData, batch_size, TRUE)
    /\ pc' = "call_train_final"
    /\ UNCHANGED << error, params, ms, loop_vars, state_dict, train_loader, test_loader,
                    tm, eval_vars, totals, output, saved, history >>

\* torch.save(cancer_net.state_dict(), "cancer_net_weights.pth")
Save ==
    /\ pc = "save"
    /\ saved' = Append(saved, cancer_net.weights)
    /\ pc' = "done"
    /\ UNCHANGED << error, params, ms, transform, loop_vars, cancer_net, state_dict,
                    optimizer, scheduler, next_id, loaders, tm, eval_vars, totals,
                    output, history >>

(***************************************************************************)
(* The mean and standard deviation cell                                    *)
(***************************************************************************)
\* batch_size=32 of mean_std_loader, and the 32 of n
MeanStdBatch == 32
\* v2.Resize((224, 224)), and the 224 of n
ImageSide == 224
\* the data points of a batch of b single-channel images: what
\* images.sum(axis=[0, 2, 3]) adds up
BatchPoints(b) == b * 1 * ImageSide * ImageSide

\* mean_std_loader and the zeroed sums; n = len(mean_std_loader)*32*(224**2)
MeanStdSetup ==
    /\ pc = "mean_std"
    /\ LET loader == DataLoader(DOMAIN labels, MeanStdBatch, FALSE)
       IN  ms' = [ loader |-> loader,
                   batches |-> LoaderBatches(loader),
                   next |-> 1,
                   points |-> 0,
                   n |-> LoaderLen(loader) * MeanStdBatch * (ImageSide * ImageSide) ]
    /\ pc' = "mean_std_loop"
    /\ UNCHANGED << error, params, transform, loop_vars, cancer_net, state_dict,
                    optimizer, scheduler, next_id, loaders, tm, eval_vars, totals,
                    output, saved, history >>

\* one batch of the loop: the values of the batch's images are added to the sums
MeanStdBatchStep ==
    /\ pc = "mean_std_loop"
    /\ ms.next <= Len(ms.batches)
    /\ ms' = [ ms EXCEPT !.next = @ + 1,
                         !.points = @ + BatchPoints(Len(ms.batches[ms.next])) ]
    /\ UNCHANGED << pc, error, params, transform, loop_vars, cancer_net, state_dict,
                    optimizer, scheduler, next_id, loaders, tm, eval_vars, totals,
                    output, saved, history >>

\* mean = sum/n; std = torch.sqrt(sum_2/n - mean**2); the print
MeanStdFinish ==
    /\ pc = "mean_std_loop"
    /\ ms.next > Len(ms.batches)
    /\ pc' = "mean_std_done"
    /\ UNCHANGED << error, params, ms, transform, loop_vars, cancer_net, state_dict,
                    optimizer, scheduler, next_id, loaders, tm, eval_vars, totals,
                    output, saved, history >>

(***************************************************************************)
(* Specifications                                                          *)
(***************************************************************************)
\* what every specification starts from, given the dataset, the sizes, the
\* outcome of the shuffle, the weights after construction and the first statement
Start(lab, k, bs, ne, shuffled, w, at) ==
    /\ pc = at
    /\ error = "none"
    /\ labels = lab
    /\ transform = NoTransform
    /\ folds = k
    /\ batch_size = bs
    /\ num_epochs = ne
    /\ indices = shuffled
    /\ split_pos = 0
    /\ splits = << >>
    /\ train_i = {}
    /\ test_i = {}
    /\ cancer_net = [ weights |-> w, training |-> TRUE ]
    /\ state_dict = DeepCopy(StateDict([ weights |-> w, training |-> TRUE ]))
    /\ tm = NoTrainFrame
    /\ ev = NoEvalFrame
    /\ ms = NoMeanStd
    /\ result = NoResult
    /\ totals = ZeroTotals
    /\ output = << >>
    /\ saved = << >>
    /\ runs = << >>
    /\ trained = w
    /\ seen = << >>

\* before the cross-validation cell: no fold, no loader, no optimizer yet
NotStarted ==
    /\ fold = -1
    /\ optimizer = NoOptimizer
    /\ scheduler = NoScheduler
    /\ next_id = 1
    /\ train_loader = NoLoader
    /\ dataset_loader = NoLoader
\* a loss function that gives the same loss whatever the parameters
UnitLoss == [ w \in Weights |-> 1 ]

\* the notebook from the cross-validation cell on, all cells run in order
Init ==
    \E lab \in Datasets(MaxN), k \in 2 .. MaxFolds, bs \in 1 .. MaxBatchSize,
       ne \in 1 .. MaxEpochs :
      \E shuffled \in Perms(Len0(lab)) :
        /\ Start(lab, k, bs, ne, shuffled, constructed, "cv_loop")
        /\ NotStarted
        /\ loss_fn = UnitLoss
        /\ test_loader = NoLoader

Next ==
    \/ FoldBegin
    \/ PrepareTrain
    \/ PrepareTest
    \/ TrainCallFold
    \/ EpochBegin
    \/ TrainBatch
    \/ TrainReturn
    \/ EvalEnter
    \/ EvalBatch
    \/ EvalFinish
    \/ Aggregate
    \/ ResetModel
    \/ CVSummary
    \/ FinalSetup
    \/ TrainCallFinal
    \/ Save

Spec == Init /\ [][Next]_vars

\* list(k_fold.split(dataset)): the split generator on its own
SplitNext ==
    /\ pc = "split"
    /\ split_pos < folds
    /\ splits' = Append(splits, KFoldSplit(indices, folds, split_pos))
    /\ split_pos' = split_pos + 1
    /\ UNCHANGED << pc, error, params, ms, transform, fold, train_i, test_i, cancer_net,
                    state_dict, optimizer, scheduler, next_id, loaders, tm,
                    eval_vars, totals, output, saved, history >>

InitKFold ==
    \E lab \in Datasets(MaxSplitN) :
      \E k \in 2 .. Len0(lab), shuffled \in Perms(Len0(lab)) :
        /\ Start(lab, k, 1, 1, shuffled, constructed, "split")
        /\ NotStarted
        /\ loss_fn = UnitLoss
        /\ test_loader = NoLoader

SpecKFold == InitKFold /\ [][SplitNext]_vars

\* evaluate_model on its own, on a loader built as the test loader is
\* (batch_size=1, shuffle=False) over any labelled data
InitEval ==
    \E n \in 0 .. MaxEvalN :
      \E lab \in [ 0 .. (n - 1) -> {0, 1} ] :
        /\ Start(lab, 2, 1, 1, << >>, constructed, "call_eval")
        /\ NotStarted
        /\ loss_fn = UnitLoss
        /\ test_loader = DataLoader(DOMAIN lab, 1, FALSE)

NextEval == EvalEnter \/ EvalBatch \/ EvalFinish

SpecEval == InitEval /\ [][NextEval]_vars

\* evaluate_model on its own, on a loader of any batch size
InitEvalAny ==
    \E n \in 0 .. MaxEvalN, bs \in 1 .. MaxEvalBatch :
      \E lab \in [ 0 .. (n - 1) -> {0, 1} ] :
        /\ Start(lab, 2, 1, 1, << >>, constructed, "call_eval")
        /\ NotStarted
        /\ loss_fn = UnitLoss
        /\ test_loader = DataLoader(DOMAIN lab, bs, FALSE)

SpecEvalAny == InitEvalAny /\ [][NextEval]_vars

\* train_model on its own, called as the loop body calls it or as the final
\* cell does, with a new optimizer and scheduler, on a loader that serves its
\* samples in index order, with any loss function
InitTrain ==
    \E n \in 2 .. MaxTrainN, bs \in 1 .. MaxBatchSize, ne \in 1 .. MaxEpochs,
       at \in { "call_train_fold", "call_train_final" },
       lf \in [ Weights -> 1 .. MaxLoss ] :
        /\ Start(ImageFolder(1, n - 1), 2, bs, ne, << >>, constructed, at)
        /\ loss_fn = lf
        /\ fold = IF at = "call_train_fold" THEN 0 ELSE -1
        /\ optimizer = NewOptimizer(1)
        /\ scheduler = NewScheduler(2, NewOptimizer(1))
        /\ next_id = 3
        /\ train_loader = DataLoader(0 .. (n - 1), bs, FALSE)
        /\ dataset_loader = DataLoader(0 .. (n - 1), bs, FALSE)
        /\ test_loader = NoLoader

\* the mean and standard deviation cell on its own, on a dataset of any size
InitMeanStd ==
    \E n \in 2 .. MaxImages :
        /\ Start(ImageFolder(1, n - 1), 2, 1, 1, << >>, constructed, "mean_std")
        /\ NotStarted
        /\ loss_fn = UnitLoss
        /\ test_loader = NoLoader

NextMeanStd == MeanStdSetup \/ MeanStdBatchStep \/ MeanStdFinish

SpecMeanStd == InitMeanStd /\ [][NextMeanStd]_vars

NextTrain == TrainCallFold \/ TrainCallFinal \/ EpochBegin \/ TrainBatch \/ TrainReturn

SpecTrain == InitTrain /\ [][NextTrain]_vars

(***************************************************************************)
(* Properties                                                              *)
(***************************************************************************)
Run(k) == runs[k]
FoldRuns == { k \in 1 .. Len(runs) : Run(k).current_fold # None }
FinalRuns == { k \in 1 .. Len(runs) : Run(k).current_fold = None }
AllIndices == DOMAIN labels
\* the cross-validation cell has run to its end
CvComplete == pc \in { "final", "call_train_final", "save", "done" } \/ FinalRuns # {}
\* evaluate_model has left its loop and has returned or raised
EvalOver == pc \in { "aggregate", "raised" } /\ ev.next > Len(ev.batches)
\* the samples read so far that are predicted positive and are positive
TruePositives == Cardinality({ k \in 1 .. Len(seen) : seen[k] = << 1, 1 >> })
\* the samples read so far whose prediction is their label
Matches == Cardinality({ k \in 1 .. Len(seen) : seen[k][1] = seen[k][2] })

\* C1: every batch the Trainer draws in a fold of the cross-validation loop is
\* served through the training-time transform.
C1_FoldTrainingUsesTrainTransform ==
    \A k \in FoldRuns : Run(k).transforms \subseteq { train_transform }

\* C2: whenever train_model is about to be entered, for a fold or for the final
\* run, the model's parameters are those of the snapshot; and no step changes
\* the snapshot.
C2_TrainingStartsFromSnapshot ==
    /\ [](pc \in { "call_train_fold", "call_train_final" }
            => cancer_net.weights = state_dict.val)
    /\ [][state_dict' = state_dict]_vars

\* C2 witness: the final run is about to start after a fold whose training left
\* other parameters than the snapshot's.
C2_Witness ==
    /\ pc = "call_train_final"
    /\ trained # state_dict.val

\* C3: the test sets yielded by the split are pairwise disjoint, each fold's
\* train set is the complement of its test set, and once all folds are yielded
\* the test sets cover every index.
C3_KFoldPartition ==
    /\ \A a, b \in 1 .. Len(splits) :
         a # b => splits[a].test \cap splits[b].test = {}
    /\ \A a \in 1 .. Len(splits) :
         /\ splits[a].train = AllIndices \ splits[a].test
         /\ splits[a].train \cap splits[a].test = {}
         /\ splits[a].test \subseteq AllIndices
    /\ split_pos = folds =>
         /\ Len(splits) = folds
         /\ UNION { splits[a].test : a \in 1 .. Len(splits) } = AllIndices

\* C3 witness: all folds yielded, of unequal sizes, from a shuffle that is not
\* the identity.
C3_Witness ==
    /\ pc = "split"
    /\ split_pos = folds
    /\ Len0(labels) % folds # 0
    /\ \E p \in DOMAIN indices : indices[p] # p

\* C4: no optimizer and no scheduler is stepped in two runs, a run steps one
\* optimizer and one scheduler, and both have taken no step when the run's
\* first batch begins.
C4_FreshOptimizerPerRun ==
    /\ \A a, b \in 1 .. Len(runs) :
         a # b => /\ Run(a).optimizers \cap Run(b).optimizers = {}
                  /\ Run(a).schedulers \cap Run(b).schedulers = {}
    /\ \A a \in 1 .. Len(runs) :
         Run(a).batches > 0 =>
           /\ Cardinality(Run(a).optimizers) = 1
           /\ Cardinality(Run(a).schedulers) = 1
           /\ Run(a).first_steps = << 0, 0 >>
    /\ scheduler.optimizer = optimizer.id

\* C4 witness: the final run has trained after at least two folds have.
C4_Witness ==
    /\ pc = "done"
    /\ Cardinality(FoldRuns) >= 2
    /\ \A a \in 1 .. Len(runs) : Run(a).batches > 1

\* C5: after a non-empty data source with no predicted positive or no
\* positive sample, evaluate_model returns a tuple whose precision
\* (respectively recall) is 0; it does not raise.
C5_DefaultOnZeroDenominator ==
    ( /\ EvalOver
      /\ ev.total > 0
      /\ (ev.predicted_positive = 0 \/ ev.total_positive = 0) )
    => /\ pc = "aggregate"
       /\ ev.predicted_positive = 0 => result.precision = << 0, 1 >>
       /\ ev.total_positive = 0 => result.recall = << 0, 1 >>

\* C6: after predicted positives and positives but no correctly predicted
\* positive, evaluate_model returns a tuple whose F1 is 0; it does not raise.
C6_F1DefinedWithoutTruePositives ==
    ( /\ EvalOver
      /\ ev.predicted_positive > 0
      /\ ev.total_positive > 0
      /\ ev.predicted_positive_correct = 0 )
    => /\ pc = "aggregate"
       /\ result.f1_score = << 0, 1 >>

\* C7: for a data source of any batch size the loop runs to its end, and
\* predicted_positive_correct is the number of samples read that are predicted
\* positive and are positive.
C7_CountsTruePositives ==
    /\ error # "RuntimeError"
    /\ ev.predicted_positive_correct = TruePositives

\* C8: correct never exceeds total, and the accuracy returned is the number of
\* samples whose prediction is their label over the number of samples read, a
\* value in [0,1].
C8_AccuracyIsMatchRatio ==
    /\ 0 <= ev.correct
    /\ ev.correct <= ev.total
    /\ ev.total = Len(seen)
    /\ pc = "aggregate" =>
         /\ Len(seen) > 0
         /\ result.accuracy[1] * Len(seen) = Matches * result.accuracy[2]
         /\ RatInUnit(result.accuracy)

\* C8 witness: evaluate_model has returned accuracy 0.8.
C8_Witness ==
    /\ pc = "aggregate"
    /\ ev.total = 5
    /\ ev.correct = 4
    /\ result.accuracy = << 4, 5 >>

\* the metric tuples printed so far
MetricLines == SelectSeq(output, LAMBDA l : l.kind \in { "fold", "summary" })
MetricNames == { "accuracy", "precision", "recall", "f1_score" }
\* the sum of one metric over the first n lines
RECURSIVE SumOf(_, _, _)
SumOf(lines, name, n) ==
    IF n = 0 THEN << 0, 1 >>
    ELSE RatAdd(SumOf(lines, name, n - 1), lines[n].metrics[name])

\* C9: a complete cross-validation run has printed one metric tuple per fold, in
\* fold order, and then one summary; each component of the summary times the
\* number of folds is the sum of the per-fold values; every component printed
\* is in [0,1].
C9_FoldTuplesThenMean ==
    CvComplete =>
      /\ Len(MetricLines) = folds + 1
      /\ \A k \in 1 .. folds :
           /\ MetricLines[k].kind = "fold"
           /\ MetricLines[k].fold = k - 1
      /\ MetricLines[folds + 1].kind = "summary"
      /\ \A name \in MetricNames :
           /\ RatMul(MetricLines[folds + 1].metrics[name], << folds, 1 >>)
                = SumOf(MetricLines, name, folds)
           /\ \A k \in 1 .. (folds + 1) : RatInUnit(MetricLines[k].metrics[name])

\* C9 witness: the summary is printed and its accuracy is neither 0 nor 1.
C9_Witness ==
    /\ CvComplete
    /\ Len(MetricLines) = folds + 1
    /\ MetricLines[folds + 1].metrics.accuracy \notin { << 0, 1 >>, << 1, 1 >> }
    /\ MetricLines[1].metrics # MetricLines[2].metrics

\* C10: the final run starts with the evaluation transform still installed by
\* the last fold; its loader is over every index of the dataset, every batch is
\* served through the training transform, every pass draws every index, and it
\* ends after as many passes as each fold's run.
C10_FinalRunOnFullDataset ==
    /\ pc = "final" => transform = test_transform
    /\ \A k \in FinalRuns :
         /\ Run(k).indices = AllIndices
         /\ Run(k).transforms \subseteq { train_transform }
         /\ Run(k).full_epochs
         /\ pc \in { "save", "done" } =>
              /\ Run(k).epochs = num_epochs
              /\ \A j \in FoldRuns : Run(j).epochs = Run(k).epochs

\* C10 witness: the final run has ended after more than one pass of more than
\* one batch over a dataset larger than any fold's training subset.
C10_Witness ==
    /\ pc = "done"
    /\ \E k \in FinalRuns :
         /\ Run(k).epochs > 1
         /\ Run(k).batches > Run(k).epochs
         /\ Run(k).transforms = { train_transform }
         /\ \A j \in FoldRuns : Run(j).indices # Run(k).indices

\* C11: the weights file is written at most once, by the save that follows the
\* final run after all of its epochs, and holds the parameters that run left;
\* nothing is written while the cross-validation loop runs or after a run that
\* raised; once the loop has ended no step of evaluate_model is taken.
C11_WeightsWrittenOnceAfterFinalRun ==
    /\ [](Len(saved) <= 1)
    /\ [](saved # << >> =>
            /\ pc = "done"
            /\ error = "none"
            /\ split_pos = folds
            /\ saved[1] = trained
            /\ \E k \in FinalRuns :
                 /\ k = Len(runs)
                 /\ Run(k).epochs = num_epochs
                 /\ Run(k).full_epochs)
    /\ [](pc = "done" => Len(saved) = 1)
    /\ [](pc = "raised" => [](saved = << >>))
    /\ [](CvComplete => pc \notin { "call_eval", "eval_loop", "aggregate", "reset" })
    /\ [][saved' # saved =>
            /\ pc = "save"
            /\ tm.current_fold = None
            /\ tm.epoch = tm.num_epochs]_vars
    /\ [][CvComplete => (ev' = ev /\ result' = result)]_vars

\* C11 witness: the file is written after at least two folds and a final run of
\* more than one epoch, and holds other parameters than the snapshot's.
C11_Witness ==
    /\ pc = "done"
    /\ Len(saved) = 1
    /\ saved[1] # state_dict.val
    /\ Cardinality(FoldRuns) >= 2
    /\ num_epochs > 1

\* train_model has returned to its caller
TrainOver == pc \in { "call_eval", "save" }
\* the place of a call in the calls of a batch (0 when it is not made)
Place(calls, name) ==
    IF Count(calls, name) = 0 THEN 0
    ELSE CHOOSE k \in 1 .. Len(calls) : calls[k] = name

\* C12: the calls of a batch are zero_grad, forward, loss, backward,
\* optimizer.step, scheduler.step, once each and in that order; at every moment
\* of a run the optimizer and the scheduler have each taken one step per batch
\* served, and after E epochs over a loader of B batches exactly E*B steps.
C12_StepsPerBatchInOrder ==
    LET B == LoaderLen(tm.data_loader)
        E == tm.num_epochs
        order == << "zero_grad", "forward", "loss", "backward", "optimizer.step",
                    "scheduler.step" >>
    IN  /\ tm.calls # << >> =>
              /\ \A k \in 1 .. 6 : Count(tm.calls, order[k]) = 1
              /\ \A k \in 1 .. 5 :
                   Place(tm.calls, order[k]) < Place(tm.calls, order[k + 1])
        /\ pc = "batch" =>
              /\ optimizer.steps = tm.epoch * B + tm.i
              /\ scheduler.steps = tm.epoch * B + tm.i
        /\ pc = "epoch" =>
              /\ optimizer.steps = tm.epoch * B
              /\ scheduler.steps = tm.epoch * B
        /\ TrainOver =>
              /\ optimizer.steps = E * B
              /\ scheduler.steps = E * B
              /\ Run(Len(runs)).batches = E * B

\* C12 witness: a run of two epochs over more than ten batches has returned,
\* and the scheduler has taken E*B steps, which is not E.
C12_Witness ==
    /\ TrainOver
    /\ tm.num_epochs = 2
    /\ LoaderLen(tm.data_loader) > 10
    /\ scheduler.steps = 2 * LoaderLen(tm.data_loader)
    /\ scheduler.steps # tm.num_epochs
    /\ tm.calls = BatchCalls

\* the sum of the losses reported on the first n lines
RECURSIVE LossOf(_, _)
LossOf(lines, n) == IF n = 0 THEN 0 ELSE LossOf(lines, n - 1) + lines[n].loss

\* C13: in an epoch over B >= 1 batches the k-th progress line is printed
\* after batch min(10k, B), so after i < B batches there are i div 10 lines and
\* after the epoch ceil(B/10); the loss on a line is the sum of the losses of
\* the batches after the previous line of the epoch (at most ten); the losses
\* on the lines and the loss not yet reported add up to the losses of the
\* epoch's batches, and nothing is left unreported when the epoch ends.
C13_ProgressLinesAndLossWindows ==
    LET B == LoaderLen(tm.data_loader)
        lines == tm.lines
        Before(k) == IF k = 1 THEN [ batch |-> 0, total |-> 0 ] ELSE lines[k - 1]
    IN  /\ \A k \in 1 .. Len(lines) :
              /\ lines[k].batch = Min(10 * k, B)
              /\ lines[k].of = B
              /\ lines[k].fold = tm.current_fold
              /\ lines[k].loss = lines[k].total - Before(k).total
              /\ lines[k].batch - Before(k).batch \in 1 .. 10
        /\ tm.i < B => Len(lines) = tm.i \div 10
        /\ (tm.i = B /\ B >= 1) =>
              /\ Len(lines) = (B + 9) \div 10
              /\ tm.current_loss = 0
        /\ LossOf(lines, Len(lines)) + tm.current_loss = tm.epoch_loss
        /\ (pc = "batch" /\ tm.i = 0) => tm.current_loss = 0

\* C13 witness: the second epoch over twelve batches has ended with two lines,
\* after batches 10 and 12, whose losses are sums of unequal batch losses.
C13_Witness ==
    /\ TrainOver
    /\ tm.epoch = 2
    /\ LoaderLen(tm.data_loader) = 12
    /\ Len(tm.lines) = 2
    /\ tm.lines[1].batch = 10
    /\ tm.lines[2].batch = 12
    /\ tm.lines[1].loss \notin { 10, 20 }
    /\ tm.lines[2].loss = 3

\* the fold tuples printed so far
FoldLines == SelectSeq(output, LAMBDA l : l.kind = "fold")

\* C14: a run has raised exactly when it is stopped, and no step is taken from
\* a stopped run; when the run stops in fold k, train_model has been called k
\* times and for no later fold, the fold tuples printed and the running sums
\* are those of the folds before k, no summary is printed, the final run has
\* not begun and nothing is saved.
C14_FailedFoldStopsTheRun ==
    /\ [](error # "none" <=> pc = "raised")
    /\ [][pc # "raised"]_vars
    /\ [](pc = "raised" =>
            /\ Len(runs) = fold + 1
            /\ FinalRuns = {}
            /\ split_pos = fold + 1
            /\ Len(splits) = fold + 1
            /\ Len(FoldLines) = (IF fold < 0 THEN 0 ELSE fold)
            /\ \A l \in 1 .. Len(output) : output[l].kind # "summary"
            /\ totals.total_a = SumOf(FoldLines, "accuracy", Len(FoldLines))
            /\ totals.total_p = SumOf(FoldLines, "precision", Len(FoldLines))
            /\ totals.total_r = SumOf(FoldLines, "recall", Len(FoldLines))
            /\ totals.total_f1 = SumOf(FoldLines, "f1_score", Len(FoldLines))
            /\ saved = << >>)

\* C14 witness: evaluate_model has raised on a zero denominator in the second
\* fold, after a first fold that contributed to the sums, with a fold left.
C14_Witness ==
    /\ pc = "raised"
    /\ error = "ZeroDivisionError"
    /\ fold = 1
    /\ folds = 3
    /\ Len(FoldLines) = 1
    /\ totals.total_a # << 0, 1 >>

\* C15: while evaluate_model reads the test loader the dataset's transform is
\* the evaluation transform, and every batch it has read was served through
\* it; at every moment all samples of the dataset are served through one and
\* the same transform, and so is every batch of every training run.
C15_EvalTransformAndOneTransform ==
    /\ pc = "eval_loop" => transform = test_transform
    /\ ev.transforms \subseteq { test_transform }
    /\ \A s, t \in AllIndices : Served(AllIndices)[s] = Served(AllIndices)[t]
    /\ \A s \in train_i, t \in test_i :
         Served(train_i)[s] = Served(test_i)[t]
    /\ \A k \in 1 .. Len(runs) : Cardinality(Run(k).transforms) <= 1

\* C15 witness: the second fold's evaluation has read a batch, after a training
\* run that drew from the other subset of the same dataset.
C15_Witness ==
    /\ pc = "eval_loop"
    /\ fold >= 1
    /\ ev.next > 1
    /\ ev.transforms = { test_transform }
    /\ Run(Len(runs)).batches > 0
    /\ train_i # {}

\* C16: every training batch of every run is computed in training mode and
\* every evaluation batch in inference mode; the evaluation of a fold leaves
\* the model in inference mode up to the next call of train_model, the reset
\* to the snapshot and the final cell's reload do not change the mode, and no
\* step of evaluate_model changes the parameters or the snapshot.
C16_ModesAndEvaluationReadOnly ==
    /\ [](\A k \in 1 .. Len(runs) : Run(k).modes \subseteq { TRUE })
    /\ [](ev.modes \subseteq { FALSE })
    /\ [](pc = "batch" => cancer_net.training)
    /\ [](pc = "eval_loop" => ~cancer_net.training)
    /\ []((pc = "call_train_fold" /\ fold >= 1) => ~cancer_net.training)
    /\ [](pc = "call_train_final" => ~cancer_net.training)
    /\ [][(pc \in { "reset", "final" }) =>
            (cancer_net'.training = cancer_net.training)]_vars
    /\ [][(pc \in { "call_eval", "eval_loop" }) =>
            /\ cancer_net'.weights = cancer_net.weights
            /\ state_dict' = state_dict]_vars

\* C16 witness: the final run has trained in training mode after two folds
\* whose evaluations ran in inference mode on parameters training had changed.
C16_Witness ==
    /\ pc = "done"
    /\ Cardinality(FoldRuns) >= 2
    /\ \A k \in 1 .. Len(runs) : Run(k).modes = { TRUE }
    /\ ev.modes = { FALSE }
    /\ cancer_net.training
    /\ trained # state_dict.val

\* C17: when the mean and standard deviation are computed, the divisor n is the
\* number of data points summed, which is the number of images times 224 * 224.
C17_DivisorIsNumberOfPoints ==
    pc = "mean_std_done" =>
      /\ ms.points = Len0(labels) * ImageSide * ImageSide
      /\ ms.n = ms.points

====
